---- MODULE Spec2Model ----
(***************************************************************************)
(* PhishGuard API (src/app.py, src/app_xai.py): URL feature extraction,    *)
(* the ensemble vote, the ordered rule adjustments, and the Flask handlers *)
(* /api/scan and /api/health.                                              *)
(*                                                                         *)
(* Strings are sequences of one-character strings, so that len, count,     *)
(* `in`, startswith and replace are computed as Python computes them.      *)
(* Scores are exact rationals [num, den] (den = 100 * panel size).         *)
(***************************************************************************)
EXTENDS Integers, Sequences, FiniteSets, TLC

VARIABLES models, features, ENHANCED_AVAILABLE, req

vars == <<models, features, ENHANCED_AVAILABLE, req>>

----------------------------------------------------------------------------
(* Bounds of the model *)

\* largest number of classifiers in the loaded panel
MaxPanel == 3
\* number of request handlers that may be in flight at once
NumRequests == 2
\* largest number of fragments a generated URL is assembled from
MaxFrags == 4

----------------------------------------------------------------------------
(* Python str operations on sequences of characters *)

None == "None"

startswith(s, p) == Len(s) >= Len(p) /\ SubSeq(s, 1, Len(p)) = p

\* sub in s
contains(s, sub) ==
    \E i \in 1..(Len(s) - Len(sub) + 1) : \A j \in 1..Len(sub) : s[i + j - 1] = sub[j]

\* s.count(c), c one character
count(s, c) == Cardinality({i \in 1..Len(s) : s[i] = c})

\* s[i:].startswith(sub), i counted from 1
matches_at(s, sub, i) ==
    i + Len(sub) - 1 <= Len(s) /\ \A j \in 1..Len(sub) : s[i + j - 1] = sub[j]

\* s.find(sub) counted from 1, 0 when sub is not in s
find(s, sub) ==
    IF contains(s, sub)
    THEN CHOOSE i \in 1..Len(s) :
            matches_at(s, sub, i) /\ \A j \in 1..(i - 1) : ~matches_at(s, sub, j)
    ELSE 0

\* s.replace(old, ''): every non-overlapping occurrence, scanning left to right
RECURSIVE replace(_, _)
replace(s, old) ==
    LET i == find(s, old)
    IN  IF i = 0 THEN s
        ELSE SubSeq(s, 1, i - 1) \o replace(SubSeq(s, i + Len(old), Len(s)), old)

LowerChar(c) ==
    CASE c = "L" -> "l" [] c = "O" -> "o" [] c = "G" -> "g"
      [] c = "I" -> "i" [] c = "N" -> "n" [] OTHER -> c

\* s.lower()
lower(s) == [i \in 1..Len(s) |-> LowerChar(s[i])]

Digits == {"0", "1", "2", "3", "4", "5", "6", "7", "8", "9"}

isdigit(s) == Len(s) > 0 /\ \A i \in 1..Len(s) : s[i] \in Digits

DigitVal(c) ==
    CASE c = "0" -> 0 [] c = "1" -> 1 [] c = "2" -> 2 [] c = "3" -> 3
      [] c = "4" -> 4 [] c = "5" -> 5 [] c = "6" -> 6 [] c = "7" -> 7
      [] c = "8" -> 8 [] c = "9" -> 9

PortLimit == 65535

\* int(s) for a string of digits, saturating just above the port range
RECURSIVE int(_)
int(s) ==
    IF s = <<>> THEN 0
    ELSE LET v == int(SubSeq(s, 1, Len(s) - 1)) * 10 + DigitVal(s[Len(s)])
         IN  IF v > PortLimit THEN PortLimit + 1 ELSE v

\* index of the first character of s that is in cs, Len(s) + 1 when there is none
FirstOf(s, cs) ==
    IF \E i \in 1..Len(s) : s[i] \in cs
    THEN CHOOSE i \in 1..Len(s) : s[i] \in cs /\ \A j \in 1..(i - 1) : s[j] \notin cs
    ELSE Len(s) + 1

\* index of the last character of s that is in cs, 0 when there is none
LastOf(s, cs) ==
    IF \E i \in 1..Len(s) : s[i] \in cs
    THEN CHOOSE i \in 1..Len(s) : s[i] \in cs /\ \A j \in (i + 1)..Len(s) : s[j] \notin cs
    ELSE 0

\* s.partition(c)[0] and s.partition(c)[2]
Before(s, cs) == SubSeq(s, 1, FirstOf(s, cs) - 1)
After(s, cs) == SubSeq(s, FirstOf(s, cs) + 1, Len(s))

\* s.rpartition(c)[2]
AfterLast(s, cs) == SubSeq(s, LastOf(s, cs) + 1, Len(s))

\* s.split('.')
RECURSIVE split(_)
split(s) ==
    IF \E i \in 1..Len(s) : s[i] = "."
    THEN <<Before(s, {"."})>> \o split(After(s, {"."}))
    ELSE <<s>>

\* the run of digits of s that starts at index i is non-empty and ends before a '.'
DigitsThenDot(s, i) ==
    LET e == FirstOf(SubSeq(s, i, Len(s)), {c \in {s[x] : x \in i..Len(s)} : c \notin Digits})
    IN  [ok |-> e > 1 /\ i + e - 1 <= Len(s) /\ s[i + e - 1] = ".", next |-> i + e]

\* re.search(r'\d+\.\d+\.\d+\.\d+', s): three digit runs each closed by a dot,
\* then a digit
HasDottedQuad(s) ==
    \E i \in 1..Len(s) :
        /\ s[i] \in Digits
        /\ DigitsThenDot(s, i).ok
        /\ DigitsThenDot(s, DigitsThenDot(s, i).next).ok
        /\ DigitsThenDot(s, DigitsThenDot(s, DigitsThenDot(s, i).next).next).ok
        /\ LET z == DigitsThenDot(s, DigitsThenDot(s, DigitsThenDot(s, i).next).next).next
           IN  z <= Len(s) /\ s[z] \in Digits

----------------------------------------------------------------------------
(* Literals of the source *)

HTTP == <<"h", "t", "t", "p", ":", "/", "/">>
HTTPS == <<"h", "t", "t", "p", "s", ":", "/", "/">>

W_secure == <<"s", "e", "c", "u", "r", "e">>
W_account == <<"a", "c", "c", "o", "u", "n", "t">>
W_login == <<"l", "o", "g", "i", "n">>
W_update == <<"u", "p", "d", "a", "t", "e">>
W_verify == <<"v", "e", "r", "i", "f", "y">>
W_bank == <<"b", "a", "n", "k">>
W_paypal == <<"p", "a", "y", "p", "a", "l">>
W_signin == <<"s", "i", "g", "n", "i", "n">>
W_webscr == <<"w", "e", "b", "s", "c", "r">>
W_cgibin == <<"c", "g", "i", "-", "b", "i", "n">>
W_cmd == <<"c", "m", "d">>
W_php == <<"p", "h", "p">>

suspicious_words ==
    {W_secure, W_account, W_login, W_update, W_verify, W_bank,
     W_paypal, W_signin, W_webscr, W_cgibin, W_cmd}

shorteners ==
    {<<"b", "i", "t", ".", "l", "y">>, <<"t", "i", "n", "y", "u", "r", "l">>,
     <<"g", "o", "o", ".", "g", "l">>, <<"t", ".", "c", "o">>,
     <<"o", "w", ".", "l", "y">>}

suspicious_path_words == {W_php, W_cgibin, W_verify, W_login, W_update, W_secure}

special_chars == {"?", "&", "=", "%", "#"}

----------------------------------------------------------------------------
(* urllib.parse.urlparse, as used on url_with_scheme (which always starts  *)
(* with http:// or https://)                                               *)

url_with_scheme_of(url) ==
    IF startswith(url, HTTP) \/ startswith(url, HTTPS) THEN url ELSE HTTP \o url

\* parsed.scheme
scheme(u) == IF startswith(u, HTTPS) THEN "https" ELSE "http"

\* parsed.netloc: what follows the scheme's '//' up to the first of / ? #
netloc(u) ==
    Before(SubSeq(u, (IF startswith(u, HTTPS) THEN Len(HTTPS) ELSE Len(HTTP)) + 1, Len(u)),
           {"/", "?", "#"})

\* the port text of parsed._hostinfo: after the last '@', after the first ':'
port_text(u) == After(AfterLast(netloc(u), {"@"}), {":"})

\* parsed.port raises ValueError: not all digits, or out of 0..65535
port_raises(u) ==
    LET p == port_text(u)
    IN  p # <<>> /\ (~isdigit(p) \/ int(p) > PortLimit)

\* bool(parsed.port) where it does not raise: a port text, and not port 0
port_truthy(u) == port_text(u) # <<>> /\ int(port_text(u)) # 0

----------------------------------------------------------------------------
(* tldextract.extract, over a public-suffix list holding only "com"        *)

NonSchemeChars == {"/", ":", "?", "&", "=", "%", "#", "@"}

\* index of the first '//' of s, 0 when there is none
FindDoubleSlash(s) ==
    IF contains(s, <<"/", "/">>)
    THEN CHOOSE i \in 1..(Len(s) - 1) :
            /\ s[i] = "/" /\ s[i + 1] = "/"
            /\ \A j \in 1..(i - 1) : ~(s[j] = "/" /\ s[j + 1] = "/")
    ELSE 0

schemeless_url(s) ==
    LET d == FindDoubleSlash(s)
    IN  IF d = 1 THEN SubSeq(s, 3, Len(s))
        ELSE IF d < 3 \/ s[d - 1] # ":"
                \/ \E j \in 1..(d - 2) : s[j] \in NonSchemeChars
             THEN s
             ELSE SubSeq(s, d + 2, Len(s))

RECURSIVE rstrip_dots(_)
rstrip_dots(s) ==
    IF s # <<>> /\ s[Len(s)] = "." THEN rstrip_dots(SubSeq(s, 1, Len(s) - 1)) ELSE s

lenient_netloc(s) ==
    rstrip_dots(Before(AfterLast(Before(schemeless_url(s), {"/", "?", "#"}), {"@"}), {":"}))

Suffixes == {<<"c", "o", "m">>}

looks_like_ip(labels) ==
    Len(labels) = 4 /\ \A i \in 1..4 : isdigit(labels[i]) /\ int(labels[i]) <= 255

\* [subdomain labels, domain]; subdomain is the '.'-join of its labels
tldextract_extract(s) ==
    LET labels == split(lower(lenient_netloc(s)))
        n == Len(labels)
        suffix_index == IF labels[n] \in Suffixes THEN n - 1 ELSE n
    IN  IF suffix_index = n /\ looks_like_ip(labels)
        THEN [subdomain |-> <<>>, domain |-> lenient_netloc(s)]
        ELSE [subdomain |-> IF suffix_index >= 2 THEN SubSeq(labels, 1, suffix_index - 1)
                            ELSE <<>>,
              domain |-> IF suffix_index >= 1 THEN labels[suffix_index] ELSE <<>>]

\* len(ext.subdomain.split('.')) if ext.subdomain else 0
num_subdomains_of(ext) ==
    IF ext.subdomain = <<>> \/ ext.subdomain = << <<>> >> THEN 0 ELSE Len(ext.subdomain)

----------------------------------------------------------------------------
(* extract_url_features *)

Half == "0.5"

ValueError == [raised |-> "ValueError"]

feature_names_26 ==
    {"url_length", "num_subdomains", "has_ip_in_url", "has_at_symbol", "has_dash",
     "uses_shortener", "contains_suspicious_words", "is_https", "has_ssl_cert",
     "num_dots", "num_slashes", "has_double_slash", "domain_length", "has_port",
     "num_special_chars", "ssl_expiry_days", "domain_age_days", "dns_record_exists",
     "whois_private", "num_forms", "has_login_form", "external_links_count",
     "title_similarity_to_domain", "ip_reputation_score", "country_mismatch",
     "hosting_provider_reputation"}

Int01(b) == IF b THEN 1 ELSE 0

has_double_slash_of(url) ==
    Int01(contains(replace(replace(url, HTTP), HTTPS), <<"/", "/">>))

num_special_chars_of(url) ==
    Cardinality({c \in special_chars : contains(url, <<c>>)})

\* the dict literal of the return statement, ext being tldextract's answer
url_features_of(url, ext) ==
    LET u == url_with_scheme_of(url)
        low == lower(url)
    IN  [url_length |-> Len(url),
         num_subdomains |-> num_subdomains_of(ext),
         has_ip_in_url |-> Int01(HasDottedQuad(url)),
         has_at_symbol |-> Int01(contains(url, <<"@">>)),
         has_dash |-> Int01(contains(ext.domain, <<"-">>)),
         uses_shortener |-> Int01(\E s \in shorteners : contains(low, s)),
         contains_suspicious_words |->
             Int01(\E w \in suspicious_words : contains(low, w)),
         is_https |-> Int01(scheme(u) = "https"),
         has_ssl_cert |-> Int01(scheme(u) = "https"),
         num_dots |-> count(url, "."),
         num_slashes |-> count(url, "/"),
         has_double_slash |-> has_double_slash_of(url),
         domain_length |-> Len(ext.domain),
         has_port |-> Int01(port_truthy(u)),
         num_special_chars |-> num_special_chars_of(url),
         ssl_expiry_days |-> 0,
         domain_age_days |-> 0,
         dns_record_exists |-> 1,
         whois_private |-> 0,
         num_forms |-> 0,
         has_login_form |-> 0,
         external_links_count |-> 0,
         title_similarity_to_domain |-> Half,
         ip_reputation_score |-> Half,
         country_mismatch |-> 0,
         hosting_provider_reputation |-> Half]

\* app.py: tldextract sees the raw url; evaluating parsed.port may raise
extract_url_features(url) ==
    IF port_raises(url_with_scheme_of(url)) THEN ValueError
    ELSE url_features_of(url, tldextract_extract(url))

\* app_xai.py: tldextract sees url_with_scheme
xai_extract_url_features(url) ==
    IF port_raises(url_with_scheme_of(url)) THEN ValueError
    ELSE url_features_of(url, tldextract_extract(url_with_scheme_of(url)))

----------------------------------------------------------------------------
(* The classifier panel (joblib artefact) and the deep-mode page signals   *)

\* m.predict(feature_df)[0] of a loaded classifier: a fixed function of the row
Classifiers == {"legit", "phish", "forms"}

predict(m, feature_df) ==
    CASE m = "legit" -> 0
      [] m = "phish" -> 1
      [] m = "forms" -> IF feature_df["num_forms"] > 0 THEN 1 ELSE 0

RECURSIVE SeqsUpTo(_, _)
SeqsUpTo(S, n) ==
    IF n = 0 THEN {<<>>}
    ELSE LET shorter == SeqsUpTo(S, n - 1)
         IN  shorter \cup {Append(q, x) : q \in shorter, x \in S}

Rank(m) == CASE m = "legit" -> 1 [] m = "phish" -> 2 [] m = "forms" -> 3

\* ensemble["models"].values(): the panels of up to MaxPanel classifiers, one order
\* for each (the order of a panel enters nothing but the order of model_votes)
Panels ==
    {q \in SeqsUpTo(Classifiers, MaxPanel) :
        \A i, j \in 1..Len(q) : i < j => Rank(q[i]) <= Rank(q[j])}

\* the module-level try/except around joblib.load: both globals are None, or both set
LoadOutcomes ==
    {[models |-> [loaded |-> FALSE, classifiers |-> <<>>],
      features |-> [loaded |-> FALSE, names |-> {}]]}
    \cup {[models |-> [loaded |-> TRUE, classifiers |-> c],
           features |-> [loaded |-> TRUE, names |-> feature_names_26]] : c \in Panels}

\* mutant: the guard tests for an empty dict only
not_models_empty_only(m) == m.loaded /\ Len(m.classifiers) = 0

\* `not models`: None or an empty dict
not_models(m) == ~m.loaded \/ Len(m.classifiers) = 0

EmptyDict == <<>>

\* the dict analyze_html returns when the fetch and the parse succeed
HtmlSignals ==
    {h \in [has_password_field : {0, 1}, external_links : {0},
            has_obfuscated_js : {0, 1}, has_hidden_iframe : {0, 1},
            has_suspicious_title : {0, 1}, num_forms : {0, 1}, redirect_count : {0}] :
        h.has_password_field = 1 => h.num_forms >= 1}

\* what happens inside analyze_html's try block: requests.get or the parse raises,
\* or the page's signals are computed
Raised(e) == [raised |-> e]
FetchOutcomes == {Raised("Timeout"), Raised("ConnectionError")} \cup HtmlSignals

\* mutant: no except clause, the exception leaves analyze_html
analyze_html_propagates(outcome) == outcome

\* analyze_html: the except clause turns any exception into {}
analyze_html(outcome) == IF "raised" \in DOMAIN outcome THEN EmptyDict ELSE outcome

\* d.get(k, default)
get(d, k, default) == IF k \in DOMAIN d THEN d[k] ELSE default

\* truth value of a dict
truthy(d) == DOMAIN d # {}

----------------------------------------------------------------------------
(* predict_phishing (app.py), from the panel's votes on *)

L_NoHttpsPath == "No HTTPS + suspicious path (+35%)"
L_NoHttps == "No HTTPS (+20%)"
L_PwNoHttps == "Password form without HTTPS (+25%)"
L_PwTitle == "Password form + suspicious title (+15%)"
L_Iframe == "Hidden iframe detected (+20%)"
L_ObfJs == "Obfuscated JavaScript (+15%)"
L_Ip == "IP address in URL (+25%)"
L_LongUrl == "Long URL + suspicious words (+15%)"
L_Subdomains == "Multiple subdomains (3+) (+10%)"

LongUrlThreshold == 75
SubdomainThreshold == 3

RECURSIVE sum(_)
sum(q) == IF q = <<>> THEN 0 ELSE Head(q) + sum(Tail(q))

\* final_score += delta (hundredths, scaled by the panel size n); adjustments.append
bump(st, n, delta, label) ==
    [num |-> st.num + delta * n, adjustments |-> Append(st.adjustments, label)]

no_https_rule(st, n, url, f) ==
    IF f.is_https = 0
    THEN IF LET low == lower(url) IN \E w \in suspicious_path_words : contains(low, w)
         THEN bump(st, n, 35, L_NoHttpsPath)
         ELSE bump(st, n, 20, L_NoHttps)
    ELSE st

\* mutant: the suspicious-title test is an `if` of its own, not an `elif`
password_rule_both(st, n, f, html_info) ==
    IF get(html_info, "has_password_field", 0) # 0
    THEN LET a == IF f.is_https = 0 THEN bump(st, n, 25, L_PwNoHttps) ELSE st
         IN  IF get(html_info, "has_suspicious_title", 0) # 0
             THEN bump(a, n, 15, L_PwTitle)
             ELSE a
    ELSE st

password_rule(st, n, f, html_info) ==
    IF get(html_info, "has_password_field", 0) # 0
    THEN IF f.is_https = 0 THEN bump(st, n, 25, L_PwNoHttps)
         ELSE IF get(html_info, "has_suspicious_title", 0) # 0
              THEN bump(st, n, 15, L_PwTitle)
              ELSE st
    ELSE st

iframe_rule(st, n, html_info) ==
    IF get(html_info, "has_hidden_iframe", 0) # 0 THEN bump(st, n, 20, L_Iframe) ELSE st

obfuscated_rule(st, n, html_info) ==
    IF get(html_info, "has_obfuscated_js", 0) # 0 THEN bump(st, n, 15, L_ObfJs) ELSE st

\* mutant: the obfuscated-JavaScript rule is applied before the hidden-iframe rule
deep_rules_reordered(st, n, deep, f, html_info) ==
    IF deep /\ truthy(html_info)
    THEN iframe_rule(obfuscated_rule(password_rule(st, n, f, html_info), n, html_info),
                     n, html_info)
    ELSE st

deep_rules(st, n, deep, f, html_info) ==
    IF deep /\ truthy(html_info)
    THEN obfuscated_rule(iframe_rule(password_rule(st, n, f, html_info), n, html_info),
                         n, html_info)
    ELSE st

ip_rule(st, n, f) ==
    IF f.has_ip_in_url # 0 THEN bump(st, n, 25, L_Ip) ELSE st

\* mutant: the length test is >= instead of >
long_url_rule_ge(st, n, f) ==
    IF f.url_length >= LongUrlThreshold /\ f.contains_suspicious_words # 0
    THEN bump(st, n, 15, L_LongUrl)
    ELSE st

long_url_rule(st, n, f) ==
    IF f.url_length > LongUrlThreshold /\ f.contains_suspicious_words # 0
    THEN bump(st, n, 15, L_LongUrl)
    ELSE st

\* mutant: many subdomains lower the score instead of raising it
subdomain_rule_deescalates(st, n, f) ==
    IF f.num_subdomains >= SubdomainThreshold THEN bump(st, n, 0 - 10, L_Subdomains) ELSE st

subdomain_rule(st, n, f) ==
    IF f.num_subdomains >= SubdomainThreshold THEN bump(st, n, 10, L_Subdomains) ELSE st

Max(a, b) == IF a >= b THEN a ELSE b
Min(a, b) == IF a <= b THEN a ELSE b

\* max(0, min(1, final_score)), in units of 1 / den
clamp(num, den) == Max(0, Min(den, num))

\* mutant: the tie at 0.5 goes to LEGITIMATE
decision_of_strict(num, den) == IF 2 * num > den THEN "PHISHING" ELSE "LEGITIMATE"

decision_of(num, den) == IF 2 * num >= den THEN "PHISHING" ELSE "LEGITIMATE"

\* max(final_score, 1 - final_score) * 100
confidence_of(num, den) == [num |-> Max(num, den - num) * 100, den |-> den]

\* lines 140-217: the overlay of num_forms, the votes, the rules, the result dict
score_and_assemble(url, deep, m, names, url_features0, html_info) ==
    LET url_features ==
            [url_features0 EXCEPT !.num_forms = get(html_info, "num_forms", @)]
        feature_df == [k \in names |-> get(url_features, k, 0)]
        predictions == [i \in 1..Len(m.classifiers) |-> predict(m.classifiers[i], feature_df)]
        n == Len(predictions)
        den == 100 * n
        st0 == [num |-> 100 * sum(predictions), adjustments |-> <<>>]
        st1 == no_https_rule(st0, n, url, url_features)
        st2 == deep_rules(st1, n, deep, url_features, html_info)
        st3 == ip_rule(st2, n, url_features)
        st4 == long_url_rule(st3, n, url_features)
        st5 == subdomain_rule(st4, n, url_features)
        final_score == clamp(st5.num, den)
    IN  [url |-> url,
         decision |-> decision_of(final_score, den),
         confidence |-> confidence_of(final_score, den),
         score |-> [num |-> final_score, den |-> den],
         model_votes |-> predictions,
         adjustments |-> st5.adjustments,
         features |-> url_features,
         html_analysis |-> IF deep THEN html_info ELSE None]

----------------------------------------------------------------------------
(* Requests *)

Pad(n) == [i \in 1..n |-> "a"]
PadTo(s, n) == s \o Pad(n - Len(s))

Host_plain == <<"a", ".", "c", "o", "m">>
Host_subs == <<"x", ".", "y", ".", "z", ".", "a", ".", "c", "o", "m">>
Host_ip == <<"1", "9", "2", ".", "1", "6", "8", ".", "1", ".", "1">>

\* the URLs scanned: every scheme, host and path below, a URL without a scheme,
\* one that triggers every URL rule, one whose path needs lower(), and one with a
\* port that is no number
Urls ==
    {sch \o h \o path :
        sch \in {HTTP, HTTPS}, h \in {Host_plain, Host_subs, Host_ip},
        path \in {<<"/">>, <<"/">> \o W_login}}
    \cup {PadTo(sch \o h \o tail, n) :
        sch \in {HTTP, HTTPS}, h \in {Host_plain, Host_subs, Host_ip},
        tail \in {<<"/">> \o W_account}, n \in {LongUrlThreshold, LongUrlThreshold + 1}}
    \cup {PadTo(sch \o h \o <<"/">>, LongUrlThreshold + 1) :
        sch \in {HTTP, HTTPS}, h \in {Host_plain, Host_subs, Host_ip}}
    \cup {Host_plain,
          PadTo(HTTP \o Host_subs \o <<"/">> \o W_login \o <<"/">> \o Host_ip,
                LongUrlThreshold + 1),
          HTTP \o Host_plain \o <<"/", "L", "O", "G", "I", "N">>,
          HTTP \o Host_plain \o <<":", "a", "b", "c", "/">>}

\* request.get_json(): raises on a body that is no JSON, else the parsed body
RequestsFor(urls, modes) ==
    {[json_ok |-> FALSE, data |-> EmptyDict],
     [json_ok |-> TRUE, data |-> EmptyDict],
     [json_ok |-> TRUE, data |-> [mode |-> "deep"]]}
    \cup {[json_ok |-> TRUE, data |-> [url |-> u]] : u \in urls}
    \cup {[json_ok |-> TRUE, data |-> [url |-> u, mode |-> m]] : u \in urls, m \in modes}

Requests == RequestsFor(Urls, {"fast", "deep"})

Procs == 1..NumRequests

Idle == [pc |-> "idle"]

\* the handler's return: jsonify(body), status; `fetched` and `outcome` record
\* whether analyze_html ran for this request and what happened in it
respond(p, kind, request, fetched, outcome, status, body) ==
    req' = [req EXCEPT ![p] =
                [pc |-> "done", kind |-> kind, request |-> request, fetched |-> fetched,
                 outcome |-> outcome, status |-> status, body |-> body]]

----------------------------------------------------------------------------
(* The state machine *)

Init ==
    /\ \E e \in LoadOutcomes : models = e.models /\ features = e.features
    /\ ENHANCED_AVAILABLE \in BOOLEAN
    /\ req = [p \in Procs |-> Idle]

\* a POST /api/scan arrives and is given to a handler
scan_receive(p, requests) ==
    /\ req[p].pc = "idle"
    /\ \E r \in requests : req' = [req EXCEPT ![p] = [pc |-> "scan", request |-> r]]
    /\ UNCHANGED <<models, features, ENHANCED_AVAILABLE>>

\* scan() down to the call of requests.get in analyze_html, or to its return when
\* analyze_html is not called
scan_run(p) ==
    /\ req[p].pc = "scan"
    /\ LET r == req[p].request
       IN  IF ~r.json_ok
           THEN respond(p, "scan", r, FALSE, EmptyDict, 500, [error |-> "BadRequest"])
           ELSE IF ~truthy(r.data) \/ "url" \notin DOMAIN r.data
           THEN respond(p, "scan", r, FALSE, EmptyDict, 400, [error |-> "URL is required"])
           ELSE LET url == r.data["url"]
                    deep == get(r.data, "mode", "fast") = "deep"
                IN  IF not_models(models)
                    THEN respond(p, "scan", r, FALSE, EmptyDict, 500,
                                 [error |-> "Model not loaded"])
                    ELSE LET url_features == extract_url_features(url)
                         IN  IF "raised" \in DOMAIN url_features
                             THEN respond(p, "scan", r, FALSE, EmptyDict, 500,
                                          [error |-> url_features.raised])
                             ELSE IF deep /\ ENHANCED_AVAILABLE
                             THEN req' = [req EXCEPT ![p] =
                                            [pc |-> "fetch", request |-> r,
                                             url_features |-> url_features]]
                             ELSE respond(p, "scan", r, FALSE, EmptyDict, 200,
                                          score_and_assemble(url, deep, models, features.names,
                                                             url_features, EmptyDict))
    /\ UNCHANGED <<models, features, ENHANCED_AVAILABLE>>

\* mutant: html_info is a module-level global, so a handler may read what the
\* analyze_html of another request returned
html_info_shared(p, returned) ==
    LET others == {q \in Procs \ {p} : req[q].pc = "done" /\ req[q].fetched}
    IN  IF others # {} THEN analyze_html(req[CHOOSE q \in others : TRUE].outcome)
        ELSE returned

\* the html_info local of the handler p, bound to what its own analyze_html returned
html_info_of(p, returned) == returned

\* the blocking fetch of analyze_html ends and scan() runs to its return; an
\* exception that left analyze_html would reach the except clause of scan()
analyze_html_return(p, outcomes) ==
    /\ req[p].pc = "fetch"
    /\ \E o \in outcomes :
          LET r == req[p].request
              html_info == html_info_of(p, analyze_html(o))
          IN  IF "raised" \in DOMAIN html_info
              THEN respond(p, "scan", r, TRUE, o, 500, [error |-> html_info.raised])
              ELSE respond(p, "scan", r, TRUE, o, 200,
                           score_and_assemble(r.data["url"], TRUE, models, features.names,
                                              req[p].url_features, html_info))
    /\ UNCHANGED <<models, features, ENHANCED_AVAILABLE>>

\* GET /api/health
health(p) ==
    /\ req[p].pc = "idle"
    /\ respond(p, "health", [json_ok |-> TRUE, data |-> EmptyDict], FALSE, EmptyDict, 200,
               [status |-> "healthy", model_loaded |-> models.loaded,
                deep_mode_available |-> ENHANCED_AVAILABLE])
    /\ UNCHANGED <<models, features, ENHANCED_AVAILABLE>>

\* the response is sent; the handler is free for the next request
deliver(p) ==
    /\ req[p].pc = "done"
    /\ req' = [req EXCEPT ![p] = Idle]
    /\ UNCHANGED <<models, features, ENHANCED_AVAILABLE>>

Next ==
    \E p \in {1} :
        \/ scan_receive(p, Requests)
        \/ scan_run(p)
        \/ analyze_html_return(p, FetchOutcomes)
        \/ health(p)
        \/ deliver(p)

Spec == Init /\ [][Next]_vars

----------------------------------------------------------------------------
(* Feature extraction over generated URLs: scans in fast mode of every URL *)
(* assembled from up to MaxFrags of the fragments below                    *)

Frags ==
    {HTTP, HTTPS, Host_plain, <<"/">>, <<":">>, <<"8", "0">>, <<"9", "9", "9">>,
     <<"?">>, <<"&">>}

RECURSIVE UrlsOfUpTo(_)
UrlsOfUpTo(n) ==
    IF n = 0 THEN {<<>>}
    ELSE LET shorter == UrlsOfUpTo(n - 1)
         IN  shorter \cup {u \o f : u \in shorter, f \in Frags}

GenUrls == UrlsOfUpTo(MaxFrags)

ExtractRequests == {[json_ok |-> TRUE, data |-> [url |-> u]] : u \in GenUrls}

InitExtract ==
    /\ models = [loaded |-> TRUE, classifiers |-> <<"legit", "phish">>]
    /\ features = [loaded |-> TRUE, names |-> feature_names_26]
    /\ ENHANCED_AVAILABLE = FALSE
    /\ req = [p \in Procs |-> Idle]

NextExtract ==
    \E p \in {1} :
        \/ scan_receive(p, ExtractRequests)
        \/ scan_run(p)
        \/ deliver(p)

SpecExtract == InitExtract /\ [][NextExtract]_vars

----------------------------------------------------------------------------
(* Concurrent requests: NumRequests handlers in flight, any interleaving   *)

ConcUrls ==
    {HTTP \o Host_plain \o <<"/">> \o W_login,
     HTTPS \o Host_ip \o <<"/">>,
     HTTP \o Host_plain \o <<":", "a", "b", "c", "/">>}

ConcRequests == RequestsFor(ConcUrls, {"deep"})

ConcOutcomes ==
    {Raised("Timeout"),
     [has_password_field |-> 1, external_links |-> 0, has_obfuscated_js |-> 1,
      has_hidden_iframe |-> 0, has_suspicious_title |-> 1, num_forms |-> 1,
      redirect_count |-> 0]}

InitConc ==
    /\ \E e \in LoadOutcomes :
          /\ e.models.classifiers \in {<<>>, <<"legit", "forms">>}
          /\ models = e.models /\ features = e.features
    /\ ENHANCED_AVAILABLE \in BOOLEAN
    /\ req = [p \in Procs |-> Idle]

NextConc ==
    \E p \in Procs :
        \/ scan_receive(p, ConcRequests)
        \/ scan_run(p)
        \/ analyze_html_return(p, ConcOutcomes)
        \/ health(p)
        \/ deliver(p)

SpecConc == InitConc /\ [][NextConc]_vars

\* scan() and predict_phishing run start to end for the request r alone, o being
\* what happens inside analyze_html if it is called
scan(r, o) ==
    IF ~r.json_ok THEN [status |-> 500, body |-> [error |-> "BadRequest"]]
    ELSE IF ~truthy(r.data) \/ "url" \notin DOMAIN r.data
    THEN [status |-> 400, body |-> [error |-> "URL is required"]]
    ELSE IF not_models(models)
    THEN [status |-> 500, body |-> [error |-> "Model not loaded"]]
    ELSE LET url == r.data["url"]
             deep == get(r.data, "mode", "fast") = "deep"
             url_features == extract_url_features(url)
             html_info == IF deep /\ ENHANCED_AVAILABLE THEN analyze_html(o) ELSE EmptyDict
         IN  IF "raised" \in DOMAIN url_features
             THEN [status |-> 500, body |-> [error |-> url_features.raised]]
             ELSE [status |-> 200,
                   body |-> score_and_assemble(url, deep, models, features.names,
                                               url_features, html_info)]

----------------------------------------------------------------------------
(* The explainable deployment (app_xai.py): the same requests served by    *)
(* its own scan() and predict_phishing                                     *)

\* get_lime_explanation, get_shap_explanation, get_feature_importance: each
\* returns a report, or None when its explainer is missing or raises
Explanations ==
    [lime : {None, "report"}, shap : {None, "report"},
     feature_importance : {None, "report"}]

\* predict_phishing of app_xai.py from the votes on (lines 238-291): the no-HTTPS
\* rule and the IP rule only; `deep` is not read
xai_score_and_assemble(url, m, names, url_features, explain, explanation) ==
    LET feature_df == [k \in names |-> get(url_features, k, 0)]
        predictions == [i \in 1..Len(m.classifiers) |-> predict(m.classifiers[i], feature_df)]
        n == Len(predictions)
        den == 100 * n
        st0 == [num |-> 100 * sum(predictions), adjustments |-> <<>>]
        st1 == no_https_rule(st0, n, url, url_features)
        st2 == ip_rule(st1, n, url_features)
        final_score == clamp(st2.num, den)
        result == [url |-> url,
                   decision |-> decision_of(final_score, den),
                   confidence |-> confidence_of(final_score, den),
                   score |-> [num |-> final_score, den |-> den],
                   model_votes |-> predictions,
                   adjustments |-> st2.adjustments,
                   features |-> url_features]
    IN  IF explain THEN result @@ [explainability |-> explanation] ELSE result

\* a request of app_xai.py: the body, and the explain argument of the query string
XaiRequests ==
    {[json_ok |-> r.json_ok, data |-> r.data, explain |-> e] :
        r \in Requests, e \in BOOLEAN}

\* scan() of app_xai.py, start to end
xai_scan_run(p, explanations) ==
    /\ req[p].pc = "scan"
    /\ LET r == req[p].request
       IN  IF ~r.json_ok
           THEN respond(p, "xai_scan", r, FALSE, EmptyDict, 500, [error |-> "BadRequest"])
           ELSE IF ~truthy(r.data) \/ "url" \notin DOMAIN r.data
           THEN respond(p, "xai_scan", r, FALSE, EmptyDict, 400,
                        [error |-> "URL is required"])
           ELSE LET url == r.data["url"]
                IN  IF not_models(models)
                    THEN respond(p, "xai_scan", r, FALSE, EmptyDict, 500,
                                 [error |-> "Model not loaded"])
                    ELSE LET url_features == xai_extract_url_features(url)
                         IN  IF "raised" \in DOMAIN url_features
                             THEN respond(p, "xai_scan", r, FALSE, EmptyDict, 500,
                                          [error |-> url_features.raised])
                             ELSE \E x \in (IF r.explain THEN explanations
                                             ELSE {CHOOSE y \in explanations : TRUE}) :
                                      respond(p, "xai_scan", r, FALSE, EmptyDict, 200,
                                              xai_score_and_assemble(
                                                  url, models, features.names,
                                                  url_features, r.explain, x))
    /\ UNCHANGED <<models, features, ENHANCED_AVAILABLE>>

\* both deployments load the same artefact; ENHANCED_AVAILABLE is read by app.py only
InitXai ==
    /\ \E e \in LoadOutcomes : models = e.models /\ features = e.features
    /\ ENHANCED_AVAILABLE = FALSE
    /\ req = [p \in Procs |-> Idle]

NextXai ==
    \E p \in {1} :
        \/ scan_receive(p, XaiRequests)
        \/ scan_run(p)
        \/ xai_scan_run(p, Explanations)
        \/ deliver(p)

SpecXai == InitXai /\ [][NextXai]_vars

----------------------------------------------------------------------------
(* What the properties below speak of *)

ScanDone(p) == req[p].pc = "done" /\ req[p].kind = "scan"

\* a scan that returned a result (HTTP 200)
ScanOk(p) == ScanDone(p) /\ req[p].status = 200

Result(p) == req[p].body

DeepRequested(p) == get(req[p].request.data, "mode", "fast") = "deep"

\* the deep signals the scan had: what analyze_html returned, {} without a fetch
SignalsOf(p) == IF req[p].fetched THEN analyze_html(req[p].outcome) ELSE EmptyDict

Votes(p) == Result(p).model_votes
PhishingVotes(p) == Cardinality({i \in 1..Len(Votes(p)) : Votes(p)[i] = 1})

Has(q, x) == \E i \in 1..Len(q) : q[i] = x

\* the rules of section 4.3 as a table: for each rule, whether its trigger holds
\* for the scan, its delta in hundredths and its label
RuleTable(p) ==
    LET f == Result(p).features
        url == Result(p).url
        sig == SignalsOf(p)
        deepOn == DeepRequested(p) /\ truthy(sig)
        path == \E low \in {lower(url)} : \E w \in suspicious_path_words : contains(low, w)
    IN  << [on |-> f.is_https = 0 /\ path, delta |-> 35, label |-> L_NoHttpsPath],
           [on |-> f.is_https = 0 /\ ~path, delta |-> 20, label |-> L_NoHttps],
           [on |-> deepOn /\ get(sig, "has_password_field", 0) = 1 /\ f.is_https = 0,
            delta |-> 25, label |-> L_PwNoHttps],
           [on |-> deepOn /\ get(sig, "has_password_field", 0) = 1 /\ f.is_https = 1
                   /\ get(sig, "has_suspicious_title", 0) = 1,
            delta |-> 15, label |-> L_PwTitle],
           [on |-> deepOn /\ get(sig, "has_hidden_iframe", 0) = 1,
            delta |-> 20, label |-> L_Iframe],
           [on |-> deepOn /\ get(sig, "has_obfuscated_js", 0) = 1,
            delta |-> 15, label |-> L_ObfJs],
           [on |-> f.has_ip_in_url = 1, delta |-> 25, label |-> L_Ip],
           [on |-> f.url_length >= 76 /\ f.contains_suspicious_words = 1,
            delta |-> 15, label |-> L_LongUrl],
           [on |-> f.num_subdomains >= 3, delta |-> 10, label |-> L_Subdomains] >>

Triggered(T) == {i \in 1..Len(T) : T[i].on}

RECURSIVE SumOver(_, _)
SumOver(T, I) ==
    IF I = {} THEN 0
    ELSE LET i == CHOOSE x \in I : TRUE IN T[i].delta + SumOver(T, I \ {i})

\* the labels of the triggered rules, in the order of the table
RECURSIVE LabelsFrom(_, _, _)
LabelsFrom(T, I, i) ==
    IF i > Len(T) THEN <<>>
    ELSE (IF i \in I THEN <<T[i].label>> ELSE <<>>) \o LabelsFrom(T, I, i + 1)

----------------------------------------------------------------------------
(* C1: every result of predict_phishing has its score in [0,1], its        *)
(* confidence in [50,100] and the decision PHISHING exactly when the score *)
(* is at least 0.5; a base score of exactly 0.5 with no adjustment gives   *)
(* PHISHING with confidence 50.                                            *)
C1_ScoreConfidenceDecision ==
    \A p \in Procs :
        ScanOk(p) =>
            LET b == Result(p)
            IN  /\ Len(b.model_votes) >= 1
                /\ 0 <= b.score.num /\ b.score.num <= b.score.den
                /\ 50 * b.confidence.den <= b.confidence.num
                /\ b.confidence.num <= 100 * b.confidence.den
                /\ (b.decision = "PHISHING") <=> (2 * b.score.num >= b.score.den)
                /\ b.decision \in {"PHISHING", "LEGITIMATE"}
                /\ (2 * PhishingVotes(p) = Len(b.model_votes) /\ b.adjustments = <<>>)
                       => /\ b.decision = "PHISHING"
                          /\ b.confidence.num = 50 * b.confidence.den

\* a scan whose panel split evenly and which no rule adjusted
C1_Witness ==
    \E p \in Procs :
        /\ ScanOk(p)
        /\ 2 * PhishingVotes(p) = Len(Votes(p))
        /\ Result(p).adjustments = <<>>
        /\ Result(p).decision = "PHISHING"

(* C2: the score of a scan is clamp(base + sum of the deltas of the rules  *)
(* whose trigger holds, 0, 1), base being phishing votes / panel size; the *)
(* IP rule is applied whenever has_ip_in_url = 1, HTTPS or not, and the    *)
(* long-URL rule exactly for url_length >= 76 with suspicious words.       *)
C2_ScoreIsClampedSum ==
    \A p \in Procs :
        ScanOk(p) =>
            \A T \in {RuleTable(p)} :
            LET b == Result(p)
                n == Len(b.model_votes)
                exact == 100 * PhishingVotes(p) + n * SumOver(T, Triggered(T))
            IN  /\ b.score.den = 100 * n
                /\ b.score.num = (IF exact > 100 * n THEN 100 * n
                                  ELSE IF exact < 0 THEN 0 ELSE exact)
                /\ Has(b.adjustments, L_Ip) <=> (b.features.has_ip_in_url = 1)
                /\ Has(b.adjustments, L_LongUrl)
                       <=> (b.features.url_length >= 76
                            /\ b.features.contains_suspicious_words = 1)
                /\ (b.features.url_length = 75) => ~Has(b.adjustments, L_LongUrl)

\* an HTTPS scan of a 76-character URL that holds an IP address: both rules applied
C2_Witness ==
    \E p \in Procs :
        /\ ScanOk(p)
        /\ Result(p).features.is_https = 1
        /\ Result(p).features.url_length = 76
        /\ Has(Result(p).adjustments, L_Ip)
        /\ Has(Result(p).adjustments, L_LongUrl)
        /\ Result(p).score.num < Result(p).score.den

(* C3: the adjustments of a scan are the labels of its triggered rules in  *)
(* the fixed order of section 4.3 (a subsequence of that order, no label   *)
(* twice), so the list is a function of the set of triggered rules alone.  *)
C3_AdjustmentOrder ==
    \A p \in Procs :
        ScanOk(p) =>
            \A T \in {RuleTable(p)} :
            LET adj == Result(p).adjustments
            IN  /\ adj = LabelsFrom(T, Triggered(T), 1)
                /\ \A i, j \in 1..Len(adj) : i # j => adj[i] # adj[j]
                /\ ~(Has(adj, L_NoHttpsPath) /\ Has(adj, L_NoHttps))

\* a scan in which a rule of every one of the seven places fired
C3_Witness ==
    \E p \in Procs :
        /\ ScanOk(p)
        /\ Result(p).adjustments =
               <<L_NoHttpsPath, L_PwNoHttps, L_Iframe, L_ObfJs, L_Ip, L_LongUrl, L_Subdomains>>

(* C4: in a deep scan whose page has a password field, at most one of the  *)
(* two password sub-rules fires: without HTTPS only "Password form without *)
(* HTTPS", whatever has_suspicious_title is; the suspicious-title sub-rule *)
(* fires only for an HTTPS URL.                                            *)
C4_PasswordRulesExclusive ==
    \A p \in Procs :
        (ScanOk(p) /\ DeepRequested(p) /\ get(SignalsOf(p), "has_password_field", 0) = 1) =>
            LET adj == Result(p).adjustments
                f == Result(p).features
            IN  /\ ~(Has(adj, L_PwNoHttps) /\ Has(adj, L_PwTitle))
                /\ f.is_https = 0 => (Has(adj, L_PwNoHttps) /\ ~Has(adj, L_PwTitle))
                /\ Has(adj, L_PwTitle) => f.is_https = 1

\* a deep scan without HTTPS of a page with a password field and a suspicious title
C4_Witness ==
    \E p \in Procs :
        /\ ScanOk(p) /\ DeepRequested(p)
        /\ get(SignalsOf(p), "has_password_field", 0) = 1
        /\ get(SignalsOf(p), "has_suspicious_title", 0) = 1
        /\ Result(p).features.is_https = 0
        /\ Has(Result(p).adjustments, L_PwNoHttps)

FastScanOf(url) ==
    score_and_assemble(url, FALSE, models, features.names, extract_url_features(url),
                       EmptyDict)

DeepOnlyLabels == {L_PwNoHttps, L_PwTitle, L_Iframe, L_ObfJs}

(* C6: a deep scan whose HTML fetch or parse raised still returns a result *)
(* (HTTP 200); its deep signals are empty, it has no deep-only adjustment, *)
(* and its decision, score, adjustments and feature vector are those of a  *)
(* fast scan of the same URL with the same panel.                          *)
C6_FetchFailureDegrades ==
    \A p \in Procs :
        (ScanDone(p) /\ req[p].fetched /\ "raised" \in DOMAIN req[p].outcome) =>
            /\ req[p].status = 200
            /\ DOMAIN Result(p).html_analysis = {}
            /\ \A l \in DeepOnlyLabels : ~Has(Result(p).adjustments, l)
            /\ \A fast \in {FastScanOf(req[p].request.data["url"])} :
                  /\ Result(p).decision = fast.decision
                  /\ Result(p).score = fast.score
                  /\ Result(p).confidence = fast.confidence
                  /\ Result(p).adjustments = fast.adjustments
                  /\ Result(p).features = fast.features
                  /\ Result(p).model_votes = fast.model_votes

\* a deep scan whose fetch timed out, answered with a result that a rule adjusted
C6_Witness ==
    \E p \in Procs :
        /\ ScanOk(p) /\ req[p].fetched
        /\ req[p].outcome = Raised("Timeout")
        /\ Result(p).adjustments # <<>>
        /\ \E i \in 1..Len(models.classifiers) : models.classifiers[i] = "forms"

(* C7: extract_url_features never fails: for every URL string, malformed  *)
(* ones included, it returns a feature vector with the 26 canonical names, *)
(* so a scan of any URL with the panel loaded returns a result.            *)
C7_ExtractNeverFails ==
    \A p \in Procs :
        (ScanDone(p) /\ "url" \in DOMAIN req[p].request.data /\ ~not_models(models)) =>
            /\ DOMAIN extract_url_features(req[p].request.data["url"]) = feature_names_26
            /\ req[p].status = 200
            /\ DOMAIN Result(p).features = feature_names_26

RECURSIVE TotalCount(_, _)
TotalCount(s, cs) ==
    IF cs = {} THEN 0
    ELSE LET c == CHOOSE x \in cs : TRUE IN count(s, c) + TotalCount(s, cs \ {c})

(* C8: num_special_chars is the total number of occurrences in the raw URL *)
(* of the characters ? & = % #.                                            *)
C8_SpecialCharsTotal ==
    \A p \in Procs :
        ScanOk(p) =>
            Result(p).features.num_special_chars = TotalCount(Result(p).url, special_chars)

\* the URL without one leading http:// or https://
StripLeadingScheme(url) ==
    IF startswith(url, HTTP) THEN SubSeq(url, Len(HTTP) + 1, Len(url))
    ELSE IF startswith(url, HTTPS) THEN SubSeq(url, Len(HTTPS) + 1, Len(url))
    ELSE url

(* C9: has_double_slash is 1 exactly when '//' occurs in the URL with one  *)
(* leading 'http://' or 'https://' removed; a later 'http://' is not       *)
(* removed and counts as a double slash.                                   *)
C9_DoubleSlashAfterLeadingScheme ==
    \A p \in Procs :
        ScanOk(p) =>
            (Result(p).features.has_double_slash = 1
                <=> contains(StripLeadingScheme(Result(p).url), <<"/", "/">>))

(* C10: under any interleaving of scan and health requests the panel and   *)
(* the feature-name list stay as loaded at startup, and every scan answers *)
(* what it would have answered running alone: a function of its own        *)
(* request, the loaded panel and its own fetch outcome.                    *)
C10_ScansIndependent ==
    /\ [](\A p \in Procs :
            ScanDone(p) =>
                \A alone \in {scan(req[p].request, req[p].outcome)} :
                    req[p].status = alone.status /\ Result(p) = alone.body)
    /\ [][models' = models /\ features' = features
          /\ ENHANCED_AVAILABLE' = ENHANCED_AVAILABLE]_vars

\* two deep scans of the same URL finished side by side with different fetch
\* outcomes and different results, while the panel is loaded
C10_Witness ==
    \E p, q \in Procs :
        /\ p # q /\ ScanOk(p) /\ ScanOk(q)
        /\ req[p].request = req[q].request
        /\ req[p].fetched /\ req[q].fetched
        /\ "raised" \in DOMAIN req[p].outcome
        /\ "raised" \notin DOMAIN req[q].outcome
        /\ Result(p).adjustments # Result(q).adjustments

(* C11: the rules only escalate. The score of every scan is at least the   *)
(* base score (phishing votes / panel size), and above it, or at the cap   *)
(* of 1, when an adjustment was applied; a scan in which at least half of  *)
(* the panel voted phishing is decided PHISHING whatever the URL features  *)
(* and the deep signals are.                                               *)
C11_RulesOnlyEscalate ==
    \A p \in Procs :
        ScanOk(p) =>
            LET b == Result(p)
                base == 100 * PhishingVotes(p)
            IN  /\ b.score.den = 100 * Len(b.model_votes)
                /\ b.score.num >= base
                /\ b.adjustments # <<>> => (b.score.num > base \/ b.score.num = b.score.den)
                /\ 2 * PhishingVotes(p) >= Len(b.model_votes) => b.decision = "PHISHING"

\* a deep scan of an HTTPS page on which half of the panel voted phishing and
\* rules fired, and which was raised above the base score short of the cap
C11_Witness ==
    \E p \in Procs :
        /\ ScanOk(p)
        /\ req[p].fetched
        /\ 2 * PhishingVotes(p) = Len(Votes(p))
        /\ Result(p).features.is_https = 1
        /\ Result(p).adjustments # <<>>
        /\ Result(p).score.num > 100 * PhishingVotes(p)
        /\ Result(p).score.num < Result(p).score.den
        /\ Result(p).decision = "PHISHING"

\* a scan answered by app_xai.py with a result (HTTP 200)
XaiScanOk(p) == req[p].pc = "done" /\ req[p].kind = "xai_scan" /\ req[p].status = 200

(* C12: the two scan implementations agree. For a scan in fast mode with   *)
(* explanations off that app_xai.py answered with a result, app.py answers *)
(* the same request with a result too, and when the votes are the same the *)
(* decision, the score, the confidence and the adjustments are the same.   *)
C12_ImplementationsAgree ==
    \A p \in Procs :
        (XaiScanOk(p) /\ ~DeepRequested(p) /\ ~req[p].request.explain) =>
            \A a \in {scan(req[p].request, EmptyDict)} :
                /\ a.status = 200
                /\ a.body.model_votes = Result(p).model_votes =>
                      /\ a.body.decision = Result(p).decision
                      /\ a.body.score = Result(p).score
                      /\ a.body.confidence = Result(p).confidence
                      /\ a.body.adjustments = Result(p).adjustments

====
